---- MODULE Spec2Model ----
(***************************************************************************)
(* A model of the scalar-multiplication, multi-scalar-multiplication,      *)
(* pairing and Barrett-reduction engine of amcl_rust_wrapper.              *)
(*                                                                         *)
(* The library is a collection of pure functions.  A state of the model is *)
(* one call: the inputs it was given (args), the function that was applied *)
(* (op, "start" before the call) and the value it returned (ret).  Each    *)
(* specification draws the inputs of one component in its initial states   *)
(* and has one action per public function of that component.               *)
(*                                                                         *)
(* G1 and G2 are modelled as the additive group of integers modulo         *)
(* CurveOrder: a group element is its discrete logarithm with respect to   *)
(* the generator.  The algorithms of src/src/group_elem.rs only use the    *)
(* group through identity, addition, subtraction, doubling and negation.   *)
(***************************************************************************)
EXTENDS Integers, Sequences, FiniteSets, TLC

VARIABLES op, args, ret

vars == <<op, args, ret>>

----------------------------------------------------------------------------
(* Program constants *)

\* crate::constants::CURVE_ORDER, the order of G1, G2 and GT (a small prime here)
CurveOrder == 67

\* the window width every caller passes to to_wnaf
WnafWidth == 5

\* the window of the constant-time multi-scalar multiplication (radix 2^3)
ConstTimeWindow == 3

\* a lookup table holds 8 odd multiples
TableSize == 8

----------------------------------------------------------------------------
(* Bounds of the model *)

\* longest vector of group elements or scalars drawn as an input
MaxLen == 3

\* largest modulus handed to the Barrett reduction
MaxModulus == 240

\* the factors of a reduced product are modulus - s for s in 1..MaxOffset
MaxOffset == 8

\* largest modulus for which every x below 2^(2k) is reduced
MaxRangeModulus == 40

\* largest index handed to select
MaxIndex == 18

\* largest number of multiples asked of get_multiples
MaxMultiples == 8

\* longest digit sequence handed to wnaf_mul
MaxDigits == 3

\* number of calls made with the same precomputed tables
MaxCalls == 2

\* largest number of bases whose tables are reused
MaxBases == 2

\* number of identities a parallel reduction may add to its partial results
MaxIdentities == 1

\* bits of a BigNum; a DoubleBigNum has twice as many
BigBits == 12

\* longest batch of pairs handed to the pairing functions
MaxPairs == 3

\* order of the part of the extension field the final exponentiation removes
Cofactor == 3

----------------------------------------------------------------------------
(* The group, as the trait GroupElement declares it *)

GroupElems == 0 .. (CurveOrder - 1)

Scalars == 0 .. (CurveOrder - 1)

\* GroupElement::new(): the underlying point constructor yields infinity
new == 0

identity == 0

is_identity(a) == a = identity

plus(a, b) == (a + b) % CurveOrder

minus(a, b) == (a + CurveOrder - b) % CurveOrder

double(a) == plus(a, a)

negation(a) == (CurveOrder - a) % CurveOrder

scalar_mul_const_time(a, r) == (a * r) % CurveOrder

\* A zeroize that leaves the value where it is
zeroize_nothing_written(self) == self

\* zeroize: ptr::write_volatile(&mut self.value, $group::new()), a new point
\* of the underlying group written over the value
zeroize(self) == new

\* Drop::drop calls zeroize
drop(self) == zeroize(self)

----------------------------------------------------------------------------
(* Results *)

NoValue == 0 - 1

Ok(v) == [ok |-> TRUE, val |-> v, err |-> "none"]

Err(e) == [ok |-> FALSE, val |-> NoValue, err |-> e]

\* check_vector_size_for_equality!(a, b)
check_vector_size_for_equality(a, b) == Len(a) = Len(b)

UnequalSizeVectors == "UnequalSizeVectors"

----------------------------------------------------------------------------
(* Scalar encodings of CurveOrderElement *)

\* to_wnaf(w): the width-w non-adjacent form, least-significant digit first.
\* While k is not zero: an odd k yields the digit u = k mod 2^w, taken
\* negative (u - 2^w) when u >= 2^(w-1), and k becomes k - u; an even k
\* yields 0; then k is halved.  The scalar 0 yields the empty sequence.
RECURSIVE to_wnaf_loop(_, _, _)
to_wnaf_loop(k, w, naf) ==
    IF k = 0 THEN naf
    ELSE IF k % 2 = 1
         THEN LET b == k % (2 ^ w)
                  u == IF b >= 2 ^ (w - 1) THEN b - 2 ^ w ELSE b
              IN  to_wnaf_loop((k - u) \div 2, w, Append(naf, u))
         ELSE to_wnaf_loop(k \div 2, w, Append(naf, 0))

to_wnaf(e, w) == to_wnaf_loop(e, w, <<>>)

\* to_power_of_2_base(n): the base-2^n digits, least-significant first; the
\* scalar 0 yields the single digit 0.
RECURSIVE to_power_of_2_base_loop(_, _, _)
to_power_of_2_base_loop(t, n, base_repr) ==
    IF t = 0 THEN base_repr
    ELSE to_power_of_2_base_loop(t \div (2 ^ n), n, Append(base_repr, t % (2 ^ n)))

to_power_of_2_base(e, n) ==
    IF e = 0 THEN <<0>> ELSE to_power_of_2_base_loop(e, n, <<>>)

\* pad_collection!(coll, pad): every sequence is extended at its end with pad
\* up to the greatest length; evaluates to that length.
RECURSIVE max_length(_)
max_length(coll) ==
    IF coll = <<>> THEN 0
    ELSE LET m == max_length(Tail(coll))
         IN  IF Len(Head(coll)) > m THEN Len(Head(coll)) ELSE m

pad_collection(coll, pad) ==
    [j \in 1 .. Len(coll) |->
        [i \in 1 .. max_length(coll) |->
            IF i <= Len(coll[j]) THEN coll[j][i] ELSE pad]]

----------------------------------------------------------------------------
(* Group element vectors: impl_group_elem_vec_ops *)

\* Self::new(size): a vector of size identity elements
GroupElementVector_new(size) == [i \in 1 .. size |-> new]

\* the shorter of the lengths of two vectors
shorter_len(a, b) == IF Len(a) < Len(b) THEN Len(a) ELSE Len(b)

\* plus that adds the elements the two vectors have in common, without the
\* length check
GroupElementVector_plus_truncating(self, b) ==
    Ok([i \in 1 .. shorter_len(self, b) |-> plus(self[i], b[i])])

\* plus: the length check, then *e = &self[i] + &b[i] for every slot i of a
\* new vector of self.len() elements
GroupElementVector_plus(self, b) ==
    IF ~check_vector_size_for_equality(self, b) THEN Err(UnequalSizeVectors)
    ELSE LET sum_vector == GroupElementVector_new(Len(self))
         IN  Ok([i \in DOMAIN sum_vector |-> plus(self[i], b[i])])

\* minus: the length check, then *e = &self[i] - &b[i] for every slot i
GroupElementVector_minus(self, b) ==
    IF ~check_vector_size_for_equality(self, b) THEN Err(UnequalSizeVectors)
    ELSE LET diff_vector == GroupElementVector_new(Len(self))
         IN  Ok([i \in DOMAIN diff_vector |-> minus(self[i], b[i])])

\* hadamard_product: the length check, then *e = &self[i] + &b[i] for every slot i
hadamard_product(self, b) ==
    IF ~check_vector_size_for_equality(self, b) THEN Err(UnequalSizeVectors)
    ELSE LET product == GroupElementVector_new(Len(self))
         IN  Ok([i \in DOMAIN product |-> plus(self[i], b[i])])

----------------------------------------------------------------------------
(* Lookup table: impl_group_element_lookup_table *)

\* select(x): entry x / 2 of the table (0-based), here 1-based
select(table, x) == table[(x \div 2) + 1]

\* How a call ends: with a panic, or with the value it returns
Panic(kind) == [panic |-> kind, entry |-> NoValue]

Returned(v) == [panic |-> "none", entry |-> v]

\* select that asserts only the range of x, not that x is odd
select_call_range_only(table, x, debug_assertions) ==
    IF debug_assertions /\ ~(x < 2 * TableSize) THEN Panic("assertion")
    ELSE IF x \div 2 >= TableSize THEN Panic("index out of bounds")
    ELSE Returned(select(table, x))

\* A call of select: debug_assert_eq!(x & 1, 1) and debug_assert!(x < 16) are
\* compiled in only when debug assertions are enabled; indexing the array of
\* eight entries is bounds-checked in every build
select_call(table, x, debug_assertions) ==
    IF debug_assertions /\ x % 2 # 1 THEN Panic("assertion")
    ELSE IF debug_assertions /\ ~(x < 2 * TableSize) THEN Panic("assertion")
    ELSE IF x \div 2 >= TableSize THEN Panic("index out of bounds")
    ELSE Returned(select(table, x))

\* From<&GroupElement>: a_i[0] = a, a_i[i + 1] = a_i[i] + 2a for i in 0..7
RECURSIVE LookupTable_fill(_, _, _)
LookupTable_fill(a_i, a_2, i) ==
    IF i = TableSize - 1 THEN a_i
    ELSE LookupTable_fill([a_i EXCEPT ![i + 2] = plus(a_i[i + 1], a_2)], a_2, i + 1)

\* A table built by adding a instead of 2a: a, 2a, 3a, ...
LookupTable_from_step_a(a) ==
    LookupTable_fill([[j \in 1 .. TableSize |-> new] EXCEPT ![1] = a], a, 0)

LookupTable_from(a) ==
    LookupTable_fill([[j \in 1 .. TableSize |-> new] EXCEPT ![1] = a], double(a), 0)

----------------------------------------------------------------------------
(* Single-scalar multiplication: impl_optmz_scalar_mul_ops *)

\* get_multiples(n): res = [self]; for i in 2..=n push res[i - 2] + self
RECURSIVE get_multiples_loop(_, _, _, _)
get_multiples_loop(self, n, i, res) ==
    IF i > n THEN res
    ELSE get_multiples_loop(self, n, i + 1, Append(res, plus(res[i - 1], self)))

get_multiples(self, n) == get_multiples_loop(self, n, 2, <<self>>)

\* An iteration that doubles after the digit is added instead of before
wnaf_mul_step_double_last(table, result, v) ==
    IF v > 0 THEN double(plus(result, select(table, v)))
    ELSE IF v < 0 THEN double(minus(result, select(table, 0 - v)))
    ELSE double(result)

\* One iteration of the loop of wnaf_mul for the digit v
wnaf_mul_step(table, result, v) ==
    LET doubled == double(result)
    IN  IF v > 0 THEN plus(doubled, select(table, v))
        ELSE IF v < 0 THEN minus(doubled, select(table, 0 - v))
        ELSE doubled

\* wnaf_mul: for n in wnaf.iter().rev(); i is the number of digits left
RECURSIVE wnaf_mul_loop(_, _, _, _)
wnaf_mul_loop(table, wnaf, i, result) ==
    IF i = 0 THEN result
    ELSE wnaf_mul_loop(table, wnaf, i - 1, wnaf_mul_step(table, result, wnaf[i]))

\* wnaf_mul taking the digits from the first to the last
wnaf_mul_first_digit_first(table, wnaf) ==
    wnaf_mul_loop(table, [i \in 1 .. Len(wnaf) |-> wnaf[Len(wnaf) + 1 - i]],
                  Len(wnaf), identity)

wnaf_mul(table, wnaf) == wnaf_mul_loop(table, wnaf, Len(wnaf), identity)

scalar_mul_variable_time(self, a) ==
    LET table == LookupTable_from(self)
        wnaf == to_wnaf(a, WnafWidth)
    IN  wnaf_mul(table, wnaf)

----------------------------------------------------------------------------
(* Scaling of a group element vector *)

\* A reduction operator that subtracts
sum_reduce_op_minus(a, b) == minus(a, b)

\* The operator of the reduction of sum: |a, b| a + b
sum_reduce_op(a, b) == plus(a, b)

\* The identity of the reduction of sum: || GroupElement::new()
sum_reduce_identity == new

\* for i in 0..self.len() { scaled.push(&self[i] * n) }
RECURSIVE scaled_by_loop(_, _, _, _)
scaled_by_loop(self, n, i, scaled) ==
    IF i > Len(self) THEN scaled
    ELSE scaled_by_loop(self, n, i + 1,
                        Append(scaled, scalar_mul_const_time(self[i], n)))

scaled_by(self, n) == scaled_by_loop(self, n, 1, <<>>)

\* A worker that builds its table from the first element of the vector
scale_var_time_worker_first_table(elems, wnaf, i) ==
    [elems EXCEPT ![i] = wnaf_mul(LookupTable_from(elems[1]), wnaf)]

\* The closure of scale_var_time run by a parallel worker on element i:
\* let table = LookupTable::from(&(*e)); *e = wnaf_mul(&table, &wnaf)
scale_var_time_worker(elems, wnaf, i) ==
    [elems EXCEPT ![i] = wnaf_mul(LookupTable_from(elems[i]), wnaf)]

----------------------------------------------------------------------------
(* Multi-scalar multiplication: impl_group_elem_vec_product_ops *)

\* the number of multiples precomputed per base, 2^3 - 1
NumMultiples == 7

\* Iterator::zip stops at the end of the shorter of the two sequences
zip_len(a, b) == IF Len(a) < Len(b) THEN Len(a) ELSE Len(b)

\* for i in 0..self.len() { accum += &self[i] * &field_elems[i] }
RECURSIVE naive_loop(_, _, _, _)
naive_loop(self, field_elems, i, accum) ==
    IF i > Len(self) THEN accum
    ELSE naive_loop(self, field_elems, i + 1,
                    plus(accum, scalar_mul_const_time(self[i], field_elems[i])))

multi_scalar_mul_const_time_naive(self, field_elems) ==
    IF ~check_vector_size_for_equality(field_elems, self)
    THEN Err(UnequalSizeVectors)
    ELSE Ok(naive_loop(self, field_elems, 1, new))

\* A body that adds the table entry of a negative digit instead of subtracting it
var_time_add_unsigned(t, lookup_table, d) ==
    IF d > 0 THEN plus(t, select(lookup_table, d))
    ELSE IF d < 0 THEN plus(t, select(lookup_table, 0 - d))
    ELSE t

\* The body of the inner loop of the Strauss multiplication for the digit d:
\* if naf[i] > 0 { t = t + select(naf[i]) } else if naf[i] < 0 { t = t - select(-naf[i]) }
var_time_add(t, lookup_table, d) ==
    IF d > 0 THEN plus(t, select(lookup_table, d))
    ELSE IF d < 0 THEN minus(t, select(lookup_table, 0 - d))
    ELSE t

\* The inner loop of the Strauss multiplication at digit position i:
\* for (naf, lookup_table) in nafs.iter().zip(lookup_tables.iter())
RECURSIVE var_time_inner(_, _, _, _, _)
var_time_inner(nafs, lookup_tables, i, j, t) ==
    IF j > zip_len(nafs, lookup_tables) THEN t
    ELSE var_time_inner(nafs, lookup_tables, i, j + 1,
                        var_time_add(t, lookup_tables[j], nafs[j][i]))

\* for i in (0..new_length).rev() { t = r.double(); ...; r = t }
RECURSIVE var_time_outer(_, _, _, _)
var_time_outer(nafs, lookup_tables, i, r) ==
    IF i = 0 THEN r
    ELSE var_time_outer(nafs, lookup_tables, i - 1,
                        var_time_inner(nafs, lookup_tables, i, 1, double(r)))

\* A Strauss multiplication that goes through as many digit positions as the
\* first scalar has digits, not as the longest has
multi_scalar_mul_var_time_first_length(lookup_tables, field_elems) ==
    LET nafs == [j \in 1 .. Len(field_elems) |-> to_wnaf(field_elems[j], WnafWidth)]
    IN  IF ~check_vector_size_for_equality(nafs, lookup_tables)
        THEN Err(UnequalSizeVectors)
        ELSE LET new_length == IF nafs = <<>> THEN 0 ELSE Len(nafs[1])
                 padded == pad_collection(nafs, 0)
             IN  Ok(var_time_outer(padded, lookup_tables, new_length, identity))

multi_scalar_mul_var_time_with_precomputation_done(lookup_tables, field_elems) ==
    LET nafs == [j \in 1 .. Len(field_elems) |-> to_wnaf(field_elems[j], WnafWidth)]
    IN  IF ~check_vector_size_for_equality(nafs, lookup_tables)
        THEN Err(UnequalSizeVectors)
        ELSE LET new_length == max_length(nafs)
                 padded == pad_collection(nafs, 0)
             IN  Ok(var_time_outer(padded, lookup_tables, new_length, identity))

\* The group operations the Strauss multiplication performs, in order: the
\* operation, the digit position i (0 is the least significant) and, for an
\* addition or subtraction, the pair j of the zip it belongs to.
GroupOp(kind, i, j) == [kind |-> kind, i |-> i, j |-> j]

\* An inner loop body that doubles before each addition or subtraction
var_time_add_ops_double_each(ops, i, j, d) ==
    IF d > 0 THEN ops \o <<GroupOp("double", i, j), GroupOp("add", i, j)>>
    ELSE IF d < 0 THEN ops \o <<GroupOp("double", i, j), GroupOp("sub", i, j)>>
    ELSE ops

\* if naf[i] > 0 { t = t + ... } else if naf[i] < 0 { t = t - ... }
var_time_add_ops(ops, i, j, d) ==
    IF d > 0 THEN Append(ops, GroupOp("add", i, j))
    ELSE IF d < 0 THEN Append(ops, GroupOp("sub", i, j))
    ELSE ops

RECURSIVE var_time_inner_ops(_, _, _, _, _)
var_time_inner_ops(nafs, lookup_tables, i, j, ops) ==
    IF j > zip_len(nafs, lookup_tables) THEN ops
    ELSE var_time_inner_ops(nafs, lookup_tables, i, j + 1,
                            var_time_add_ops(ops, i - 1, j, nafs[j][i]))

\* let mut t = r.double(), then the inner loop
RECURSIVE var_time_outer_ops(_, _, _, _)
var_time_outer_ops(nafs, lookup_tables, i, ops) ==
    IF i = 0 THEN ops
    ELSE var_time_outer_ops(nafs, lookup_tables, i - 1,
                            var_time_inner_ops(nafs, lookup_tables, i, 1,
                                               Append(ops, GroupOp("double", i - 1, 0))))

\* no group operation is performed when the length check fails
multi_scalar_mul_var_time_ops(lookup_tables, field_elems) ==
    LET nafs == [j \in 1 .. Len(field_elems) |-> to_wnaf(field_elems[j], WnafWidth)]
    IN  IF ~check_vector_size_for_equality(nafs, lookup_tables) THEN <<>>
        ELSE var_time_outer_ops(pad_collection(nafs, 0), lookup_tables,
                                max_length(nafs), <<>>)

multi_scalar_mul_var_time_without_precomputation(group_elems, field_elems) ==
    LET lookup_tables == [j \in 1 .. Len(group_elems) |-> LookupTable_from(group_elems[j])]
    IN  multi_scalar_mul_var_time_with_precomputation_done(lookup_tables, field_elems)

multi_scalar_mul_var_time(self, field_elems) ==
    multi_scalar_mul_var_time_without_precomputation(self, field_elems)

\* The body of the inner loop of the windowed multiplication for the digit d:
\* if b[i] != 0 { r = r + &m[(b[i] - 1) as usize] }   (m is 1-based here)
const_time_add(r, m, d) ==
    IF d # 0 THEN plus(r, m[(d - 1) + 1]) ELSE r

\* The inner loop of the windowed multiplication at digit position i:
\* for (b, m) in field_elems_base_repr.iter().zip(group_elem_multiples.iter())
RECURSIVE const_time_inner(_, _, _, _, _)
const_time_inner(field_elems_base_repr, group_elem_multiples, i, j, r) ==
    IF j > zip_len(field_elems_base_repr, group_elem_multiples) THEN r
    ELSE const_time_inner(field_elems_base_repr, group_elem_multiples, i, j + 1,
             const_time_add(r, group_elem_multiples[j], field_elems_base_repr[j][i]))

\* for i in (0..new_length).rev() { three double_mut; inner loop }
RECURSIVE const_time_outer(_, _, _, _)
const_time_outer(field_elems_base_repr, group_elem_multiples, i, r) ==
    IF i = 0 THEN r
    ELSE const_time_outer(field_elems_base_repr, group_elem_multiples, i - 1,
             const_time_inner(field_elems_base_repr, group_elem_multiples, i, 1,
                              double(double(double(r)))))

\* The windowed multiplication without its length check
multi_scalar_mul_const_time_unchecked(group_elem_multiples, field_elems) ==
    LET field_elems_base_repr ==
            [j \in 1 .. Len(field_elems) |-> to_power_of_2_base(field_elems[j], ConstTimeWindow)]
        new_length == max_length(field_elems_base_repr)
        padded == pad_collection(field_elems_base_repr, 0)
    IN  Ok(const_time_outer(padded, group_elem_multiples, new_length, new))

multi_scalar_mul_const_time_with_precomputation_done(group_elem_multiples, field_elems) ==
    LET field_elems_base_repr ==
            [j \in 1 .. Len(field_elems) |-> to_power_of_2_base(field_elems[j], ConstTimeWindow)]
    IN  IF ~check_vector_size_for_equality(group_elem_multiples, field_elems_base_repr)
        THEN Err(UnequalSizeVectors)
        ELSE LET new_length == max_length(field_elems_base_repr)
                 padded == pad_collection(field_elems_base_repr, 0)
             IN  Ok(const_time_outer(padded, group_elem_multiples, new_length, new))

\* An index that is the digit itself
const_time_index_digit(d) == d

\* The index of the multiple added for a digit d that is not 0: (b[i] - 1) as usize
const_time_index(d) == d - 1

\* The group operations the windowed multiplication performs, in order.
\* if b[i] != 0 { r = r + ... }: an addition only for a digit that is not 0
const_time_add_ops(ops, d) ==
    IF d # 0 THEN Append(ops, "add") ELSE ops

RECURSIVE const_time_inner_ops(_, _, _, _, _)
const_time_inner_ops(field_elems_base_repr, group_elem_multiples, i, j, ops) ==
    IF j > zip_len(field_elems_base_repr, group_elem_multiples) THEN ops
    ELSE const_time_inner_ops(field_elems_base_repr, group_elem_multiples, i, j + 1,
             const_time_add_ops(ops, field_elems_base_repr[j][i]))

\* three double_mut, then the inner loop
RECURSIVE const_time_outer_ops(_, _, _, _)
const_time_outer_ops(field_elems_base_repr, group_elem_multiples, i, ops) ==
    IF i = 0 THEN ops
    ELSE const_time_outer_ops(field_elems_base_repr, group_elem_multiples, i - 1,
             const_time_inner_ops(field_elems_base_repr, group_elem_multiples, i, 1,
                                  ops \o <<"double", "double", "double">>))

\* no group operation is performed when the length check fails
multi_scalar_mul_const_time_ops(group_elem_multiples, field_elems) ==
    LET field_elems_base_repr ==
            [j \in 1 .. Len(field_elems) |-> to_power_of_2_base(field_elems[j], ConstTimeWindow)]
    IN  IF ~check_vector_size_for_equality(group_elem_multiples, field_elems_base_repr)
        THEN <<>>
        ELSE const_time_outer_ops(pad_collection(field_elems_base_repr, 0),
                                  group_elem_multiples,
                                  max_length(field_elems_base_repr), <<>>)

multi_scalar_mul_const_time_without_precomputation(group_elems, field_elems) ==
    LET group_elem_multiples ==
            [j \in 1 .. Len(group_elems) |-> get_multiples(group_elems[j], NumMultiples)]
    IN  multi_scalar_mul_const_time_with_precomputation_done(group_elem_multiples, field_elems)

\* What the precomputed values hold after a call that was handed them.
\* A call that negates in place the entries it reads
precomputed_after_call_negated(precomputed, field_elems) ==
    [j \in DOMAIN precomputed |->
        [x \in DOMAIN precomputed[j] |->
            IF j <= Len(field_elems) /\ field_elems[j] # 0
            THEN negation(precomputed[j][x]) ELSE precomputed[j][x]]]

\* lookup_tables: &[LookupTable], group_elem_multiples: &[Vec<GroupElement>]
\* and table: &LookupTable are shared references, read through select and
\* indexing and never written
precomputed_after_call(precomputed, field_elems) == precomputed

multi_scalar_mul_const_time(self, field_elems) ==
    multi_scalar_mul_const_time_without_precomputation(self, field_elems)

----------------------------------------------------------------------------
(* Barrett reduction: src/src/utils.rs *)

\* BigNum::nbits: the number of bits of a value, 0 for 0
RECURSIVE nbits(_)
nbits(n) == IF n = 0 THEN 0 ELSE 1 + nbits(n \div 2)

\* BigNum::new_dcopy: the low half of a DoubleBigNum
new_dcopy(d) == d % (2 ^ BigBits)

\* shr(n) and mod2m(n) of BigNum and DoubleBigNum
shr(n, bits) == n \div (2 ^ bits)

mod2m(n, bits) == n % (2 ^ bits)

\* while r >= modulus { r = r - modulus }
RECURSIVE barrett_correction(_, _)
barrett_correction(r, modulus) ==
    IF r >= modulus THEN barrett_correction(r - modulus, modulus) ELSE r

\* The number of times the body of `while r >= modulus` runs
RECURSIVE barrett_correction_iterations(_, _)
barrett_correction_iterations(r, modulus) ==
    IF r >= modulus THEN 1 + barrett_correction_iterations(r - modulus, modulus) ELSE 0

\* An estimate whose quotient is shifted by k instead of k + 1
barrett_estimate_shift_k(x, modulus, k, u, v) ==
    LET q1 == new_dcopy(shr(x, k - 1))
        q2 == q1 * u
        q3 == new_dcopy(shr(q2, k))
        r1 == new_dcopy(mod2m(x, k + 1))
        r2 == new_dcopy(mod2m(q3 * modulus, k + 1))
    IN  IF r1 < r2 THEN v - (r2 - r1) ELSE r1 - r2

\* The value of r when the correction loop of barrett_reduction is entered
barrett_estimate(x, modulus, k, u, v) ==
    LET q1 == new_dcopy(shr(x, k - 1))
        q2 == q1 * u
        q3 == new_dcopy(shr(q2, k + 1))
        r1 == new_dcopy(mod2m(x, k + 1))
        r2 == new_dcopy(mod2m(q3 * modulus, k + 1))
    IN  IF r1 < r2 THEN v - (r2 - r1) ELSE r1 - r2

\* barrett_reduction without the correction loop at its end
barrett_reduction_uncorrected(x, modulus, k, u, v) ==
    LET q1 == new_dcopy(shr(x, k - 1))
        q2 == q1 * u
        q3 == new_dcopy(shr(q2, k + 1))
        r1 == new_dcopy(mod2m(x, k + 1))
        r2 == new_dcopy(mod2m(q3 * modulus, k + 1))
    IN  IF r1 < r2 THEN v - (r2 - r1) ELSE r1 - r2

barrett_reduction(x, modulus, k, u, v) ==
    LET q1 == new_dcopy(shr(x, k - 1))
        q2 == q1 * u
        q3 == new_dcopy(shr(q2, k + 1))
        r1 == new_dcopy(mod2m(x, k + 1))
        r2 == new_dcopy(mod2m(q3 * modulus, k + 1))
        r  == IF r1 < r2 THEN v - (r2 - r1) ELSE r1 - r2
    IN  barrett_correction(r, modulus)

\* k from the modulus, u from 2^(2k) divided by CURVE_ORDER, v = 2^(k+1)
barrett_reduction_params(modulus) ==
    LET k == nbits(modulus)
        u == (2 ^ k * 2 ^ k) \div CurveOrder
        v == 2 ^ (k + 1)
    IN  <<k, u, v>>

----------------------------------------------------------------------------
(* The pairing primitives of the underlying curve library *)

\* An FP12 value is a pair <<e, c>>: e is its component in the subgroup GT of
\* order CurveOrder (as an exponent of e(generator, generator)), c its
\* component outside GT.  Multiplication in FP12 adds the exponents.
FP12_one == <<0, 0>>

FP12_mul(a, b) == <<(a[1] + b[1]) % CurveOrder, (a[2] + b[2]) % Cofactor>>

FP12_pow(a, n) == <<(a[1] * n) % CurveOrder, (a[2] * n) % Cofactor>>

FP12_inverse(a) == <<(CurveOrder - a[1]) % CurveOrder, (Cofactor - a[2]) % Cofactor>>

FP12_isunity(a) == a = FP12_one

\* The final exponentiation maps into GT: it removes the component outside GT
fexp(f) == <<f[1], 0>>

\* What a Miller loop yields when one of its points is the identity: the
\* curve routines do not handle that case, the value is not a pairing value
Degenerate == <<1, 1>>

\* The Miller loop of one pair (G2 point first); its value is e(P, Q) up to a
\* factor outside GT
ate(Q, P) ==
    IF is_identity(P) \/ is_identity(Q) THEN Degenerate
    ELSE <<(P * Q) % CurveOrder, (P + Q) % Cofactor>>

\* The combined Miller loop of two pairs
ate2(Q1, P1, Q2, P2) ==
    IF is_identity(P1) \/ is_identity(Q1) \/ is_identity(P2) \/ is_identity(Q2)
    THEN Degenerate
    ELSE FP12_mul(ate(Q1, P1), ate(Q2, P2))

\* The accumulator of a multi-pairing: the contributions folded in so far
initmp == <<>>

another(accum, Q, P) == Append(accum, ate(Q, P))

\* The Miller step that consumes the accumulator: the product of its contributions
RECURSIVE miller_loop(_, _)
miller_loop(accum, i) ==
    IF i = 0 THEN FP12_one ELSE FP12_mul(miller_loop(accum, i - 1), accum[i])

miller(accum) == miller_loop(accum, Len(accum))

----------------------------------------------------------------------------
(* The target group: src/src/extension_field_gt.rs.  A GT is its FP12 value *)

GT_one == FP12_one

GT_is_one(self) == FP12_isunity(self)

\* mul that multiplies its first argument by itself
GT_mul_first_twice(a, b) == FP12_mul(a, a)

GT_mul(a, b) == FP12_mul(a, b)

GT_pow(self, e) == FP12_pow(self, e)

GT_inverse(self) == FP12_inverse(self)

\* A call of a method of GT: the receiver after the call and the value returned
MethodCall(self, out) == [self |-> self, out |-> out]

\* inverse_mut inverts the receiver where it stands and returns nothing
inverse_mut(self) == MethodCall(GT_inverse(self), NoValue)

\* inverse with the inversion applied to the receiver itself, not to a copy
inverse_in_place(self) == MethodCall(GT_inverse(self), GT_inverse(self))

\* inverse copies the value of the receiver, inverts the copy and returns it
inverse(self) == MethodCall(self, GT_inverse(self))

\* pow raising to the exponent plus one
pow_one_more(self, e) == MethodCall(self, GT_pow(self, e + 1))

\* pow returns a new value, the receiver is only read
pow(self, e) == MethodCall(self, GT_pow(self, e))

\* An ate_pairing that tests only its G1 argument for the identity
ate_pairing_g1_check(g1, g2) ==
    IF is_identity(g1) THEN GT_one ELSE fexp(ate(g2, g1))

ate_pairing(g1, g2) ==
    IF is_identity(g1) \/ is_identity(g2) THEN GT_one
    ELSE fexp(ate(g2, g1))

\* An ate_2_pairing without the identity test on its second pair
ate_2_pairing_first_check(g1, g2, h1, h2) ==
    IF is_identity(g1) \/ is_identity(g2) THEN ate_pairing(h1, h2)
    ELSE fexp(ate2(g2, g1, h2, h1))

ate_2_pairing(g1, g2, h1, h2) ==
    IF is_identity(g1) \/ is_identity(g2) THEN ate_pairing(h1, h2)
    ELSE IF is_identity(h1) \/ is_identity(h2) THEN ate_pairing(g1, g2)
    ELSE fexp(ate2(g2, g1, h2, h1))

\* A loop body that folds every pair in, identity or not
multi_pairing_step_no_skip(accum, g1, g2) == another(accum, g2, g1)

\* A loop body that skips a pair only when its G1 element is the identity
multi_pairing_step_g1_skip(accum, g1, g2) ==
    IF is_identity(g1) THEN accum ELSE another(accum, g2, g1)

\* The body of the loop of ate_multi_pairing for the pair (g1, g2)
multi_pairing_step(accum, g1, g2) ==
    IF is_identity(g1) \/ is_identity(g2) THEN accum
    ELSE another(accum, g2, g1)

\* for (g1, g2) in elems
RECURSIVE multi_pairing_loop(_, _, _)
multi_pairing_loop(elems, i, accum) ==
    IF i > Len(elems) THEN accum
    ELSE multi_pairing_loop(elems, i + 1,
                            multi_pairing_step(accum, elems[i][1], elems[i][2]))

ate_multi_pairing(elems) ==
    LET accum == multi_pairing_loop(elems, 1, initmp)
        e == miller(accum)
    IN  fexp(e)

----------------------------------------------------------------------------
(* The calls the pairing functions make into amcl's pair module, in order *)

\* one call: the routine and the curve points handed to it
LibCall(fn, points) == [fn |-> fn, points |-> points]

ate_pairing_calls(g1, g2) ==
    IF is_identity(g1) \/ is_identity(g2) THEN <<>>
    ELSE <<LibCall("ate", <<g2, g1>>), LibCall("fexp", <<>>)>>

\* The calls of an ate_2_pairing without the identity test on its second pair
ate_2_pairing_calls_first_check(g1, g2, h1, h2) ==
    IF is_identity(g1) \/ is_identity(g2) THEN ate_pairing_calls(h1, h2)
    ELSE <<LibCall("ate2", <<g2, g1, h2, h1>>), LibCall("fexp", <<>>)>>

ate_2_pairing_calls(g1, g2, h1, h2) ==
    IF is_identity(g1) \/ is_identity(g2) THEN ate_pairing_calls(h1, h2)
    ELSE IF is_identity(h1) \/ is_identity(h2) THEN ate_pairing_calls(g1, g2)
    ELSE <<LibCall("ate2", <<g2, g1, h2, h1>>), LibCall("fexp", <<>>)>>

\* The calls of a loop body that folds every pair in, identity or not
multi_pairing_step_calls_no_skip(calls, g1, g2) ==
    Append(calls, LibCall("another", <<g2, g1>>))

\* The calls of the body of the loop of ate_multi_pairing for the pair (g1, g2)
multi_pairing_step_calls(calls, g1, g2) ==
    IF is_identity(g1) \/ is_identity(g2) THEN calls
    ELSE Append(calls, LibCall("another", <<g2, g1>>))

RECURSIVE multi_pairing_loop_calls(_, _, _)
multi_pairing_loop_calls(elems, i, calls) ==
    IF i > Len(elems) THEN calls
    ELSE multi_pairing_loop_calls(elems, i + 1,
                                  multi_pairing_step_calls(calls, elems[i][1], elems[i][2]))

\* initmp, the loop, miller(&accum), fexp(&e)
ate_multi_pairing_calls(elems) ==
    multi_pairing_loop_calls(elems, 1, <<LibCall("initmp", <<>>)>>)
        \o <<LibCall("miller", <<>>), LibCall("fexp", <<>>)>>

----------------------------------------------------------------------------
(* Inputs *)

SeqsUpTo(S, n) == UNION {[1 .. k -> S] : k \in 0 .. n}

\* Group elements drawn for vectors: the identity, the generator and its negation
ElemSample == {identity, 1, CurveOrder - 1}

\* Scalars drawn for vectors: zero, 17 (wNAF -15,0,0,0,0,1), 40 (wNAF 0,0,0,5)
\* and CurveOrder - 1 (seven wNAF digits, three radix-8 digits)
ScalarSample == {0, 17, 40, CurveOrder - 1}

NoRet == "none"

----------------------------------------------------------------------------
(* Specification of single-scalar multiplication and the lookup table *)

InitScalar ==
    /\ op = "start"
    /\ args \in [self : GroupElems, a : Scalars]
    /\ ret = NoRet

Call_scalar_mul_const_time ==
    /\ op = "start"
    /\ op' = "scalar_mul_const_time"
    /\ ret' = scalar_mul_const_time(args.self, args.a)
    /\ UNCHANGED args

Call_scalar_mul_variable_time ==
    /\ op = "start"
    /\ op' = "scalar_mul_variable_time"
    /\ ret' = scalar_mul_variable_time(args.self, args.a)
    /\ UNCHANGED args

Call_LookupTable_from ==
    /\ op = "start"
    /\ op' = "LookupTable_from"
    /\ ret' = LookupTable_from(args.self)
    /\ UNCHANGED args

NextScalar ==
    \/ Call_scalar_mul_const_time
    \/ Call_scalar_mul_variable_time
    \/ Call_LookupTable_from

SpecScalar == InitScalar /\ [][NextScalar]_vars

----------------------------------------------------------------------------
(* Specification of multi-scalar multiplication *)

InitMsm ==
    /\ op = "start"
    /\ \/ args \in [group_elems : SeqsUpTo(ElemSample, MaxLen),
                    field_elems : SeqsUpTo(ScalarSample, MaxLen)]
       \/ args \in [group_elems : [1 .. 1 -> GroupElems],
                    field_elems : [1 .. 1 -> Scalars]]
    /\ ret = NoRet

Call_multi_scalar_mul_const_time_naive ==
    /\ op = "start"
    /\ op' = "multi_scalar_mul_const_time_naive"
    /\ ret' = multi_scalar_mul_const_time_naive(args.group_elems, args.field_elems)
    /\ UNCHANGED args

Call_multi_scalar_mul_var_time ==
    /\ op = "start"
    /\ op' = "multi_scalar_mul_var_time"
    /\ ret' = multi_scalar_mul_var_time(args.group_elems, args.field_elems)
    /\ UNCHANGED args

Call_multi_scalar_mul_var_time_without_precomputation ==
    /\ op = "start"
    /\ op' = "multi_scalar_mul_var_time_without_precomputation"
    /\ ret' = multi_scalar_mul_var_time_without_precomputation(args.group_elems, args.field_elems)
    /\ UNCHANGED args

\* the caller has built one lookup table per group element beforehand
Call_multi_scalar_mul_var_time_with_precomputation_done ==
    /\ op = "start"
    /\ op' = "multi_scalar_mul_var_time_with_precomputation_done"
    /\ ret' = multi_scalar_mul_var_time_with_precomputation_done(
                  [j \in 1 .. Len(args.group_elems) |-> LookupTable_from(args.group_elems[j])],
                  args.field_elems)
    /\ UNCHANGED args

Call_multi_scalar_mul_const_time ==
    /\ op = "start"
    /\ op' = "multi_scalar_mul_const_time"
    /\ ret' = multi_scalar_mul_const_time(args.group_elems, args.field_elems)
    /\ UNCHANGED args

Call_multi_scalar_mul_const_time_without_precomputation ==
    /\ op = "start"
    /\ op' = "multi_scalar_mul_const_time_without_precomputation"
    /\ ret' = multi_scalar_mul_const_time_without_precomputation(args.group_elems, args.field_elems)
    /\ UNCHANGED args

\* the caller has computed the multiples of every group element beforehand
Call_multi_scalar_mul_const_time_with_precomputation_done ==
    /\ op = "start"
    /\ op' = "multi_scalar_mul_const_time_with_precomputation_done"
    /\ ret' = multi_scalar_mul_const_time_with_precomputation_done(
                  [j \in 1 .. Len(args.group_elems) |-> get_multiples(args.group_elems[j], NumMultiples)],
                  args.field_elems)
    /\ UNCHANGED args

NextMsm ==
    \/ Call_multi_scalar_mul_const_time_naive
    \/ Call_multi_scalar_mul_var_time
    \/ Call_multi_scalar_mul_var_time_without_precomputation
    \/ Call_multi_scalar_mul_var_time_with_precomputation_done
    \/ Call_multi_scalar_mul_const_time
    \/ Call_multi_scalar_mul_const_time_without_precomputation
    \/ Call_multi_scalar_mul_const_time_with_precomputation_done

SpecMsm == InitMsm /\ [][NextMsm]_vars

----------------------------------------------------------------------------
(* Properties of multi-scalar multiplication *)

\* The sum over i of S[i] * G[i], in the integers
RECURSIVE SumOfProducts(_, _, _)
SumOfProducts(G, S, i) ==
    IF i = 0 THEN 0 ELSE G[i] * S[i] + SumOfProducts(G, S, i - 1)

\* The group element sum over i of S[i] * G[i]
InnerProduct(G, S) == SumOfProducts(G, S, Len(G)) % CurveOrder

AgreeingStrategies ==
    {"multi_scalar_mul_const_time_naive",
     "multi_scalar_mul_var_time",
     "multi_scalar_mul_const_time_without_precomputation"}

\* C1: for vectors G and S of the same length n >= 0, the naive, the
\* variable-time and the constant-time multi-scalar multiplication each
\* return Ok with the group element sum over i of S[i] * G[i].
C1_StrategiesAgree ==
    (op \in AgreeingStrategies /\ Len(args.group_elems) = Len(args.field_elems))
        => ret = Ok(InnerProduct(args.group_elems, args.field_elems))

\* The variable-time strategy has multiplied two bases, one of them by a
\* scalar whose wNAF has a negative digit, and returned a non-identity sum.
C1_Witness ==
    /\ op = "multi_scalar_mul_var_time"
    /\ Len(args.group_elems) = 2
    /\ Len(args.field_elems) = 2
    /\ args.field_elems[1] = 17
    /\ args.field_elems[2] = 40
    /\ ~is_identity(args.group_elems[1])
    /\ ~is_identity(args.group_elems[2])
    /\ ret.ok
    /\ ~is_identity(ret.val)

AllStrategies ==
    {"multi_scalar_mul_const_time_naive",
     "multi_scalar_mul_var_time",
     "multi_scalar_mul_var_time_without_precomputation",
     "multi_scalar_mul_var_time_with_precomputation_done",
     "multi_scalar_mul_const_time",
     "multi_scalar_mul_const_time_without_precomputation",
     "multi_scalar_mul_const_time_with_precomputation_done"}

\* C3: whenever the number of scalars differs from the number of group
\* elements (or tables, or lists of multiples), every strategy returns the
\* size-mismatch error and no group element.
C3_SizeMismatch ==
    (op \in AllStrategies /\ Len(args.group_elems) # Len(args.field_elems))
        => (~ret.ok /\ ret.err = UnequalSizeVectors /\ ret.val = NoValue)

\* The windowed strategy was handed three lists of multiples and two scalars
\* and returned the error.
C3_Witness ==
    /\ op = "multi_scalar_mul_const_time_with_precomputation_done"
    /\ Len(args.group_elems) = 3
    /\ Len(args.field_elems) = 2
    /\ ret = Err(UnequalSizeVectors)

----------------------------------------------------------------------------
(* Properties of single-scalar multiplication and the lookup table *)

\* C2: for every group element A and every scalar r, the variable-time
\* multiplication (lookup table, width-5 wNAF, wnaf_mul) returns r * A, the
\* value of the constant-time multiplication.
C2_VariableTimeIsConstTime ==
    op = "scalar_mul_variable_time"
        => ret = scalar_mul_const_time(args.self, args.a)

\* A non-identity element was multiplied by a scalar whose wNAF has a
\* negative digit and several positions.
C2_Witness ==
    /\ op = "scalar_mul_variable_time"
    /\ ~is_identity(args.self)
    /\ args.a = 49
    /\ \E i \in 1 .. Len(to_wnaf(args.a, WnafWidth)) : to_wnaf(args.a, WnafWidth)[i] < 0
    /\ ret = (49 * args.self) % CurveOrder
    /\ ~is_identity(ret)

OddDigits == {x \in 1 .. (2 * TableSize - 1) : x % 2 = 1}

\* C6: the lookup table built from A yields x * A for every odd x in 1..15.
C6_SelectIsMultiple ==
    op = "LookupTable_from"
        => \A x \in OddDigits : select(ret, x) = scalar_mul_const_time(args.self, x)

\* A table was built from a non-identity element; its last entry is 15 * A.
C6_Witness ==
    /\ op = "LookupTable_from"
    /\ ~is_identity(args.self)
    /\ select(ret, 15) = (15 * args.self) % CurveOrder
    /\ select(ret, 15) # select(ret, 1)

----------------------------------------------------------------------------
(* Specification of the Barrett reduction *)

\* The parameters the documentation of barrett_reduction_params describes
BarrettParamsOf(m) == <<nbits(m), (2 ^ (2 * nbits(m))) \div m, 2 ^ (nbits(m) + 1)>>

\* x is the product of two values below the modulus, as in
\* timing_barrett_reduction; (k, u, v) are the documented parameters
InitBarrett ==
    /\ op = "start"
    /\ \E m \in 1 .. MaxModulus :
         \E s, t \in 1 .. MaxOffset :
            /\ s <= m
            /\ t <= m
            /\ args = [modulus |-> m, a |-> m - s, b |-> m - t, x |-> (m - s) * (m - t),
                       k |-> BarrettParamsOf(m)[1],
                       u |-> BarrettParamsOf(m)[2],
                       v |-> BarrettParamsOf(m)[3]]
    /\ ret = NoRet

Call_barrett_reduction ==
    /\ op = "start"
    /\ op' = "barrett_reduction"
    /\ ret' = barrett_reduction(args.x, args.modulus, args.k, args.u, args.v)
    /\ UNCHANGED args

Call_barrett_reduction_params ==
    /\ op = "start"
    /\ op' = "barrett_reduction_params"
    /\ ret' = barrett_reduction_params(args.modulus)
    /\ UNCHANGED args

NextBarrett ==
    \/ Call_barrett_reduction
    \/ Call_barrett_reduction_params

SpecBarrett == InitBarrett /\ [][NextBarrett]_vars

\* C4: with (k, u, v) the bit length of m, floor(2^(2k) / m) and 2^(k+1), and
\* x = a * b for 0 <= a, b < m, barrett_reduction returns x mod m.
C4_BarrettIsMod ==
    op = "barrett_reduction" => ret = args.x % args.modulus

\* C5: barrett_reduction_params(modulus) returns k = the bit length of
\* modulus, u = floor(2^(2k) / modulus) and v = 2^(k+1).
C5_ParamsFromModulus ==
    op = "barrett_reduction_params" => ret = BarrettParamsOf(args.modulus)

----------------------------------------------------------------------------
(* Specification of the pairing functions *)

\* Elements of G1 and of G2 drawn for pairings
PairingSample == ElemSample \cup {2}

\* a batch of (G1, G2) pairs
InitPairing ==
    /\ op = "start"
    /\ args \in [elems : SeqsUpTo(PairingSample \X PairingSample, MaxPairs)]
    /\ ret = NoRet

Call_ate_pairing ==
    /\ op = "start"
    /\ Len(args.elems) = 1
    /\ op' = "ate_pairing"
    /\ ret' = ate_pairing(args.elems[1][1], args.elems[1][2])
    /\ UNCHANGED args

Call_ate_2_pairing ==
    /\ op = "start"
    /\ Len(args.elems) = 2
    /\ op' = "ate_2_pairing"
    /\ ret' = ate_2_pairing(args.elems[1][1], args.elems[1][2],
                            args.elems[2][1], args.elems[2][2])
    /\ UNCHANGED args

Call_ate_multi_pairing ==
    /\ op = "start"
    /\ op' = "ate_multi_pairing"
    /\ ret' = ate_multi_pairing(args.elems)
    /\ UNCHANGED args

NextPairing ==
    \/ Call_ate_pairing
    \/ Call_ate_2_pairing
    \/ Call_ate_multi_pairing

SpecPairing == InitPairing /\ [][NextPairing]_vars

----------------------------------------------------------------------------
(* Properties of the pairing functions *)

HasIdentity(pair) == is_identity(pair[1]) \/ is_identity(pair[2])

\* C7: ate_2_pairing(P1, Q1, P2, Q2) is the GT product of the two single
\* pairings for all inputs; with an identity in one pair it is the pairing
\* of the other pair, with an identity in both pairs it is GT one.
C7_DoublePairingIsProduct ==
    op = "ate_2_pairing" =>
        LET p1 == args.elems[1]
            p2 == args.elems[2]
        IN  /\ ret = GT_mul(ate_pairing(p1[1], p1[2]), ate_pairing(p2[1], p2[2]))
            /\ HasIdentity(p1) => ret = ate_pairing(p2[1], p2[2])
            /\ HasIdentity(p2) => ret = ate_pairing(p1[1], p1[2])
            /\ (HasIdentity(p1) /\ HasIdentity(p2)) => ret = GT_one

\* The second pair holds the G2 identity, the first pair is a proper pair,
\* and the result is the non-trivial pairing of the first pair.
C7_Witness ==
    /\ op = "ate_2_pairing"
    /\ ~HasIdentity(args.elems[1])
    /\ ~is_identity(args.elems[2][1])
    /\ is_identity(args.elems[2][2])
    /\ ret = ate_pairing(args.elems[1][1], args.elems[1][2])
    /\ ~GT_is_one(ret)

\* The GT product of the single pairings of a batch
RECURSIVE ProductOfPairings(_, _)
ProductOfPairings(elems, i) ==
    IF i = 0 THEN GT_one
    ELSE GT_mul(ProductOfPairings(elems, i - 1), ate_pairing(elems[i][1], elems[i][2]))

Reordered(elems, perm) == [i \in 1 .. Len(elems) |-> elems[perm[i]]]

\* C8: ate_multi_pairing of a batch is the GT product of the single pairings
\* of its pairs, whatever the order of the pairs; it is GT one for an empty
\* batch and for a batch in which every pair holds an identity.
C8_MultiPairingIsProduct ==
    op = "ate_multi_pairing" =>
        /\ ret = ProductOfPairings(args.elems, Len(args.elems))
        /\ \A perm \in Permutations(1 .. Len(args.elems)) :
              ate_multi_pairing(Reordered(args.elems, perm)) = ret
        /\ (\A i \in 1 .. Len(args.elems) : HasIdentity(args.elems[i])) => ret = GT_one

\* A batch of three pairs, one of them holding an identity, whose product
\* is not GT one.
C8_Witness ==
    /\ op = "ate_multi_pairing"
    /\ Len(args.elems) = 3
    /\ ~HasIdentity(args.elems[1])
    /\ HasIdentity(args.elems[2])
    /\ ~HasIdentity(args.elems[3])
    /\ args.elems[1] # args.elems[3]
    /\ ret = ProductOfPairings(args.elems, 3)
    /\ ~GT_is_one(ret)

\* C9: ate_pairing(P, Q) is GT one whenever P is the G1 identity or Q is the
\* G2 identity.
C9_IdentityPairsToOne ==
    (op = "ate_pairing" /\ HasIdentity(args.elems[1])) => GT_is_one(ret)

\* The pairing of a proper G1 element with the G2 identity was evaluated.
C9_Witness ==
    /\ op = "ate_pairing"
    /\ ~is_identity(args.elems[1][1])
    /\ is_identity(args.elems[1][2])
    /\ ret = GT_one

RemoveAt(seq, i) == [j \in 1 .. (Len(seq) - 1) |-> IF j < i THEN seq[j] ELSE seq[j + 1]]

\* C10: removing from a batch a pair that holds an identity does not change
\* the result of ate_multi_pairing.
C10_IdentityPairRemovable ==
    op = "ate_multi_pairing" =>
        \A i \in 1 .. Len(args.elems) :
            HasIdentity(args.elems[i])
                => ret = ate_multi_pairing(RemoveAt(args.elems, i))

\* A batch of two proper pairs followed by a pair whose G2 element is the
\* identity, with a product that is not GT one.
C10_Witness ==
    /\ op = "ate_multi_pairing"
    /\ Len(args.elems) = 3
    /\ ~HasIdentity(args.elems[1])
    /\ ~HasIdentity(args.elems[2])
    /\ ~is_identity(args.elems[3][1])
    /\ is_identity(args.elems[3][2])
    /\ ret = ate_multi_pairing(SubSeq(args.elems, 1, 2))
    /\ ~GT_is_one(ret)

----------------------------------------------------------------------------
(* Specification of the algebra of GT: one pairing, then one method of GT
   applied to its value *)

\* one pair, each element drawn from its whole group
InitGT ==
    /\ op = "start"
    /\ args \in [elems : {<<pair>> : pair \in GroupElems \X GroupElems}]
    /\ ret = NoRet

\* e.inverse() on the value e of the pairing just computed
Call_inverse ==
    /\ op = "ate_pairing"
    /\ op' = "inverse"
    /\ LET call == inverse(ret)
       IN  /\ args' = [elems |-> args.elems, before |-> ret, self |-> call.self]
           /\ ret' = call.out

\* e.inverse_mut() on the value e of the pairing just computed
Call_inverse_mut ==
    /\ op = "ate_pairing"
    /\ op' = "inverse_mut"
    /\ LET call == inverse_mut(ret)
       IN  /\ args' = [elems |-> args.elems, before |-> ret, self |-> call.self]
           /\ ret' = call.out

\* e.pow(r) on the value e of the pairing just computed
Call_pow ==
    /\ op = "ate_pairing"
    /\ \E r \in Scalars :
        LET call == pow(ret, r)
        IN  /\ args' = [elems |-> args.elems, before |-> ret, self |-> call.self,
                        r |-> r]
            /\ ret' = call.out
    /\ op' = "pow"

NextGT ==
    \/ Call_ate_pairing
    \/ Call_inverse
    \/ Call_inverse_mut
    \/ Call_pow

SpecGT == InitGT /\ [][NextGT]_vars

----------------------------------------------------------------------------
(* Properties of the algebra of GT *)

\* C11: ate_pairing is additive in each argument, for all inputs, an identity
\* among P1, P2, Q1, Q2, P, Q and a sum that is the identity included:
\* e(P1 + P2, Q) = mul(e(P1, Q), e(P2, Q)) and
\* e(P, Q1 + Q2) = mul(e(P, Q1), e(P, Q2)).
C11_PairingAdditive ==
    op = "ate_pairing" =>
        LET P == args.elems[1][1]
            Q == args.elems[1][2]
        IN  /\ \A P1 \in GroupElems :
                ret = GT_mul(ate_pairing(P1, Q), ate_pairing(minus(P, P1), Q))
            /\ \A Q1 \in GroupElems :
                ret = GT_mul(ate_pairing(P, Q1), ate_pairing(P, minus(Q, Q1)))

\* The pairing of the sum P = 1 + 1 with a proper Q was evaluated: it is the
\* product of e(1, Q) with itself, and not GT one.
C11_Witness ==
    /\ op = "ate_pairing"
    /\ args.elems[1][1] = plus(1, 1)
    /\ ~is_identity(args.elems[1][2])
    /\ ret = GT_mul(ate_pairing(1, args.elems[1][2]), ate_pairing(1, args.elems[1][2]))
    /\ ~GT_is_one(ret)

\* C12: for a scalar r (r = 0 included), e(P, r*Q) = e(r*P, Q) = e(P, Q).pow(r).
C12_ScalarMovesAcross ==
    op = "pow" =>
        LET P == args.elems[1][1]
            Q == args.elems[1][2]
        IN  /\ ate_pairing(P, scalar_mul_const_time(Q, args.r)) = ret
            /\ ate_pairing(scalar_mul_const_time(P, args.r), Q) = ret

\* e(P, Q) of two proper elements was raised to a power r > 1 that is not GT one.
C12_Witness ==
    /\ op = "pow"
    /\ args.r > 1
    /\ ~HasIdentity(args.elems[1])
    /\ ret = ate_pairing(args.elems[1][1], scalar_mul_const_time(args.elems[1][2], args.r))
    /\ ~GT_is_one(ret)
    /\ ret # args.before

\* C13: e(P, -Q) = e(-P, Q) = e(P, Q).inverse(), the product of e(P, Q) and
\* e(P, -Q) is GT one, and inverse() returns a new value and leaves its
\* receiver as it was.
C13_NegationInverts ==
    op = "inverse" =>
        LET P == args.elems[1][1]
            Q == args.elems[1][2]
        IN  /\ ate_pairing(P, negation(Q)) = ret
            /\ ate_pairing(negation(P), Q) = ret
            /\ GT_is_one(GT_mul(args.self, ate_pairing(P, negation(Q))))
            /\ args.self = args.before

\* The inverse of a pairing value that is not its own inverse was taken.
C13_Witness ==
    /\ op = "inverse"
    /\ ~HasIdentity(args.elems[1])
    /\ ret # args.before
    /\ args.self = args.before
    /\ GT_is_one(GT_mul(args.self, ret))

----------------------------------------------------------------------------
(* Specification of the Barrett reduction over its whole input range *)

\* any x below 2^(2k); (k, u, v) are the documented parameters of the modulus
InitBarrettRange ==
    /\ op = "start"
    /\ \E m \in 1 .. MaxRangeModulus :
         \E x \in 0 .. (2 ^ (2 * nbits(m)) - 1) :
            args = [modulus |-> m, x |-> x,
                    k |-> BarrettParamsOf(m)[1],
                    u |-> BarrettParamsOf(m)[2],
                    v |-> BarrettParamsOf(m)[3]]
    /\ ret = NoRet

NextBarrettRange == Call_barrett_reduction

SpecBarrettRange == InitBarrettRange /\ [][NextBarrettRange]_vars

\* C14: for a modulus m >= 1 with the parameters (k, u, v) of m and any x
\* with 0 <= x < 2^(2k), barrett_reduction returns (its correction loop
\* ends) and the result r satisfies 0 <= r < m.
C14_BarrettInRange ==
    op = "barrett_reduction" => (0 <= ret /\ ret < args.modulus)

\* The largest x of a modulus was reduced, and the correction loop had to
\* subtract the modulus from the estimate.
C14_Witness ==
    /\ op = "barrett_reduction"
    /\ args.modulus > 1
    /\ args.x = 2 ^ (2 * args.k) - 1
    /\ barrett_reduction_uncorrected(args.x, args.modulus, args.k, args.u, args.v)
            >= args.modulus
    /\ ret < args.modulus

----------------------------------------------------------------------------
(* Group operations of the windowed multi-scalar multiplication *)

\* the length to which the radix-8 digit sequences of the scalars are padded
PaddedLength(field_elems) ==
    max_length([j \in 1 .. Len(field_elems) |->
                    to_power_of_2_base(field_elems[j], ConstTimeWindow)])

\* C15: multi_scalar_mul_const_time_with_precomputation_done does not branch
\* on scalar digits: any other scalar vector of the same length whose digit
\* sequences have the same padded length makes it perform the same sequence
\* of doublings and additions.
C15_NoBranchOnDigits ==
    (op = "multi_scalar_mul_const_time_with_precomputation_done" /\ ret.ok) =>
        LET group_elem_multiples ==
                [j \in 1 .. Len(args.group_elems) |->
                    get_multiples(args.group_elems[j], NumMultiples)]
        IN  \A other \in [1 .. Len(args.field_elems) -> ScalarSample] :
                PaddedLength(other) = PaddedLength(args.field_elems)
                    => multi_scalar_mul_const_time_ops(group_elem_multiples, other)
                        = multi_scalar_mul_const_time_ops(group_elem_multiples,
                                                          args.field_elems)

----------------------------------------------------------------------------
(* Specification of the helpers of one group element: its lookup table and
   its multiples *)

InitElem ==
    /\ op = "start"
    /\ args \in [self : GroupElems]
    /\ ret = NoRet

\* table.select(x) on the table just built, in a build with or without
\* debug assertions
Call_select ==
    /\ op = "LookupTable_from"
    /\ op' = "select"
    /\ \E x \in 0 .. MaxIndex, debug_assertions \in BOOLEAN :
        /\ args' = [self |-> args.self, table |-> ret, x |-> x,
                    debug_assertions |-> debug_assertions]
        /\ ret' = select_call(ret, x, debug_assertions)

Call_get_multiples ==
    /\ op = "start"
    /\ op' = "get_multiples"
    /\ \E n \in 0 .. MaxMultiples :
        /\ args' = [self |-> args.self, n |-> n]
        /\ ret' = get_multiples(args.self, n)

NextElem ==
    \/ Call_LookupTable_from
    \/ Call_select
    \/ Call_get_multiples

SpecElem == InitElem /\ [][NextElem]_vars

----------------------------------------------------------------------------
(* Properties of the helpers of one group element *)

\* select(x) is called outside its precondition: x is even or not in [1, 15]
PreconditionViolated(x) == x % 2 = 0 \/ x < 1 \/ x > 2 * TableSize - 1

\* C16: select(x) called with an even x or with x outside [1, 15] raises an
\* assertion failure and never returns a table entry.
C16_ViolationAsserts ==
    (op = "select" /\ PreconditionViolated(args.x)) => ret = Panic("assertion")

\* C16, amended: select(x) called with an even x or with x outside [1, 15]
\* raises an assertion failure when debug assertions are enabled; without
\* them an even x below 16 returns the table entry at index x / 2, and an x
\* of 16 or more panics on the bounds of the array.
C16_ViolationByBuild ==
    (op = "select" /\ PreconditionViolated(args.x)) =>
        IF args.debug_assertions THEN ret = Panic("assertion")
        ELSE IF args.x < 2 * TableSize
             THEN ret = Returned(args.table[(args.x \div 2) + 1])
             ELSE ret = Panic("index out of bounds")

\* select(4) without debug assertions returned the entry 5A of the table of
\* a proper element A.
C16_Witness ==
    /\ op = "select"
    /\ ~args.debug_assertions
    /\ args.x = 4
    /\ ~is_identity(args.self)
    /\ ret = Returned(scalar_mul_const_time(args.self, 5))

\* C18: get_multiples(n) returns [A, 2A, ..., nA] for every n >= 0: its
\* length is n and its i-th entry is i*A.
C18_MultiplesUpToN ==
    op = "get_multiples" =>
        /\ Len(ret) = args.n
        /\ \A i \in 1 .. args.n : ret[i] = scalar_mul_const_time(args.self, i)

----------------------------------------------------------------------------
(* Specification of the operations that combine two group element vectors *)

InitVector ==
    /\ op = "start"
    /\ args \in [self : SeqsUpTo(ElemSample, MaxLen), b : SeqsUpTo(ElemSample, MaxLen)]
    /\ ret = NoRet

Call_plus ==
    /\ op = "start"
    /\ op' = "plus"
    /\ ret' = GroupElementVector_plus(args.self, args.b)
    /\ UNCHANGED args

Call_minus ==
    /\ op = "start"
    /\ op' = "minus"
    /\ ret' = GroupElementVector_minus(args.self, args.b)
    /\ UNCHANGED args

Call_hadamard_product ==
    /\ op = "start"
    /\ op' = "hadamard_product"
    /\ ret' = hadamard_product(args.self, args.b)
    /\ UNCHANGED args

NextVector ==
    \/ Call_plus
    \/ Call_minus
    \/ Call_hadamard_product

SpecVector == InitVector /\ [][NextVector]_vars

\* C17: hadamard_product, plus and minus return the size-mismatch error when
\* the two vectors differ in length; for two vectors of length n they return
\* Ok with a vector of length n whose i-th element is a[i] + b[i]
\* (hadamard_product, plus) or a[i] - b[i] (minus).
C17_CombineChecksSize ==
    op \in {"hadamard_product", "plus", "minus"} =>
        IF Len(args.self) # Len(args.b) THEN ret = Err(UnequalSizeVectors)
        ELSE /\ ret.ok
             /\ Len(ret.val) = Len(args.self)
             /\ \A i \in 1 .. Len(args.self) :
                    ret.val[i] = IF op = "minus"
                                 THEN (args.self[i] + CurveOrder - args.b[i]) % CurveOrder
                                 ELSE (args.self[i] + args.b[i]) % CurveOrder

\* Two vectors of two elements were subtracted, and the difference is not
\* their sum.
C17_Witness ==
    /\ op = "minus"
    /\ Len(args.self) = 2
    /\ Len(args.b) = 2
    /\ ret.ok
    /\ Len(ret.val) = 2
    /\ ret.val[1] # plus(args.self[1], args.b[1])

----------------------------------------------------------------------------
(* Properties of the calls the pairing functions make *)

\* the positions of the calls of a routine in a sequence of calls
CallsTo(calls, fn) == {i \in DOMAIN calls : calls[i].fn = fn}

\* C19: ate_multi_pairing applies the final exponentiation exactly once for
\* every batch (the empty one and those holding identity pairs included) and
\* runs the Miller step that consumes the accumulator exactly once, after
\* every fold and before the final exponentiation; it folds once for every
\* pair in which neither element is the identity.
C19_OneFinalExponentiation ==
    op = "ate_multi_pairing" =>
        LET calls == ate_multi_pairing_calls(args.elems)
        IN  /\ Cardinality(CallsTo(calls, "fexp")) = 1
            /\ Cardinality(CallsTo(calls, "miller")) = 1
            /\ \A i \in CallsTo(calls, "another"), j \in CallsTo(calls, "miller") : i < j
            /\ \A i \in CallsTo(calls, "miller"), j \in CallsTo(calls, "fexp") : i < j
            /\ Cardinality(CallsTo(calls, "another"))
                = Cardinality({i \in DOMAIN args.elems : ~HasIdentity(args.elems[i])})

\* A batch of three pairs, one of them with an identity, was paired with two
\* folds and one final exponentiation.
C19_Witness ==
    /\ op = "ate_multi_pairing"
    /\ Len(args.elems) = 3
    /\ HasIdentity(args.elems[2])
    /\ Cardinality(CallsTo(ate_multi_pairing_calls(args.elems), "another")) = 2
    /\ Cardinality(CallsTo(ate_multi_pairing_calls(args.elems), "fexp")) = 1
    /\ ~GT_is_one(ret)

\* the calls made by the pairing function that has run
CallsOfOp ==
    CASE op = "ate_pairing" -> ate_pairing_calls(args.elems[1][1], args.elems[1][2])
      [] op = "ate_2_pairing" -> ate_2_pairing_calls(args.elems[1][1], args.elems[1][2],
                                                     args.elems[2][1], args.elems[2][2])
      [] op = "ate_multi_pairing" -> ate_multi_pairing_calls(args.elems)
      [] OTHER -> <<>>

MillerRoutines == {"ate", "ate2", "another"}

\* C20: in every call of ate_pairing, ate_2_pairing and ate_multi_pairing the
\* Miller-loop routines ate, ate2 and another are never handed the identity
\* of G1 or of G2.
C20_NoIdentityInMillerLoop ==
    \A i \in DOMAIN CallsOfOp :
        CallsOfOp[i].fn \in MillerRoutines =>
            \A p \in DOMAIN CallsOfOp[i].points : ~is_identity(CallsOfOp[i].points[p])

\* ate_2_pairing of a proper pair and a pair with an identity made one call
\* of ate on the proper pair, and none of ate2.
C20_Witness ==
    /\ op = "ate_2_pairing"
    /\ ~HasIdentity(args.elems[1])
    /\ HasIdentity(args.elems[2])
    /\ CallsTo(CallsOfOp, "ate2") = {}
    /\ CallsOfOp[1] = LibCall("ate", <<args.elems[1][2], args.elems[1][1]>>)

----------------------------------------------------------------------------
(* Specification of the scaling of a group element vector.  scale_var_time
   hands every element to a parallel worker; the workers run in any order.
   While a call runs, ret holds the vector of the receiver (self), the
   vector being returned (scaled), the elements not yet processed (pending)
   and the digits of the scalar (wnaf). *)

InitScale ==
    /\ op = "start"
    /\ \/ args \in [self : SeqsUpTo(ElemSample, MaxLen), n : ScalarSample]
       \/ args \in [self : [1 .. 1 -> GroupElems], n : Scalars]
    /\ ret = NoRet

Call_scaled_by ==
    /\ op = "start"
    /\ op' = "scaled_by"
    /\ ret' = [self |-> args.self, scaled |-> scaled_by(args.self, args.n),
               pending |-> {}, wnaf |-> <<>>]
    /\ UNCHANGED args

\* self.scale_var_time(n): the workers are handed the elements of self
Call_scale_var_time ==
    /\ op = "start"
    /\ op' = "scale_var_time.for_each"
    /\ ret' = [self |-> args.self, scaled |-> <<>>,
               pending |-> DOMAIN args.self, wnaf |-> to_wnaf(args.n, WnafWidth)]
    /\ UNCHANGED args

Worker_scale_var_time ==
    /\ op = "scale_var_time.for_each"
    /\ \E i \in ret.pending :
        ret' = [ret EXCEPT !.self = scale_var_time_worker(ret.self, ret.wnaf, i),
                           !.pending = ret.pending \ {i}]
    /\ UNCHANGED <<op, args>>

Return_scale_var_time ==
    /\ op = "scale_var_time.for_each"
    /\ ret.pending = {}
    /\ op' = "scale_var_time"
    /\ UNCHANGED <<args, ret>>

\* self.scaled_by_var_time(n): scaled = self.clone(); scaled.scale_var_time(n)
Call_scaled_by_var_time ==
    /\ op = "start"
    /\ op' = "scaled_by_var_time.for_each"
    /\ ret' = [self |-> args.self, scaled |-> args.self,
               pending |-> DOMAIN args.self, wnaf |-> to_wnaf(args.n, WnafWidth)]
    /\ UNCHANGED args

Worker_scaled_by_var_time ==
    /\ op = "scaled_by_var_time.for_each"
    /\ \E i \in ret.pending :
        ret' = [ret EXCEPT !.scaled = scale_var_time_worker(ret.scaled, ret.wnaf, i),
                           !.pending = ret.pending \ {i}]
    /\ UNCHANGED <<op, args>>

Return_scaled_by_var_time ==
    /\ op = "scaled_by_var_time.for_each"
    /\ ret.pending = {}
    /\ op' = "scaled_by_var_time"
    /\ UNCHANGED <<args, ret>>

NextScale ==
    \/ Call_scaled_by
    \/ Call_scale_var_time
    \/ Worker_scale_var_time
    \/ Return_scale_var_time
    \/ Call_scaled_by_var_time
    \/ Worker_scaled_by_var_time
    \/ Return_scaled_by_var_time

SpecScale == InitScale /\ [][NextScale]_vars

\* C21: for a vector V and a scalar n, scaled_by_var_time(n) returns the
\* vector scaled_by(n) returns (same length, element i is n*V[i]) and leaves
\* V as it was, and scale_var_time(n) turns V itself into that vector, in
\* whatever order the parallel workers process the elements.
C21_VarTimeScalingIsScaling ==
    /\ op = "scaled_by_var_time" =>
        /\ ret.scaled = scaled_by(args.self, args.n)
        /\ Len(ret.scaled) = Len(args.self)
        /\ \A i \in DOMAIN args.self : ret.scaled[i] = (args.n * args.self[i]) % CurveOrder
        /\ ret.self = args.self
    /\ op = "scale_var_time" => ret.self = scaled_by(args.self, args.n)

\* A vector of three elements that are not all equal was scaled in place by
\* a scalar above 1, the workers having finished in some order.
C21_Witness ==
    /\ op = "scale_var_time"
    /\ Len(args.self) = 3
    /\ args.self[1] # args.self[2]
    /\ args.n > 1
    /\ ret.self # args.self
    /\ ret.self = scaled_by(args.self, args.n)

----------------------------------------------------------------------------
(* Specification of the erasure of a group element *)

\* e.zeroize(): args.self is the element after the call
Call_zeroize ==
    /\ op = "start"
    /\ op' = "zeroize"
    /\ args' = [self |-> zeroize(args.self), before |-> args.self]
    /\ ret' = NoValue

\* the element goes out of scope: args.self is what its memory holds when
\* it is released
Call_drop ==
    /\ op = "start"
    /\ op' = "drop"
    /\ args' = [self |-> drop(args.self), before |-> args.self]
    /\ ret' = NoValue

NextZeroize ==
    \/ Call_zeroize
    \/ Call_drop

SpecZeroize == InitElem /\ [][NextZeroize]_vars

\* C22: a group element that is zeroized or dropped has its value
\* overwritten with the identity: after zeroize() it satisfies
\* is_identity(), whatever point it held.
C22_ZeroizedIsIdentity ==
    op \in {"zeroize", "drop"} => is_identity(args.self)

\* An element that was not the identity was zeroized.
C22_Witness ==
    /\ op = "zeroize"
    /\ ~is_identity(args.before)
    /\ is_identity(args.self)

----------------------------------------------------------------------------
(* Specification of wnaf_mul on any digit sequence *)

\* the digits of a width-5 wNAF: 0 and the odd values of [-15, 15]
WnafDigits == {d \in (0 - 15) .. 15 : d = 0 \/ d % 2 = 1}

InitWnaf ==
    /\ op = "start"
    /\ args \in [self : ElemSample, wnaf : SeqsUpTo(WnafDigits, MaxDigits)]
    /\ ret = NoRet

\* wnaf_mul on the table of self
Call_wnaf_mul ==
    /\ op = "start"
    /\ op' = "wnaf_mul"
    /\ ret' = wnaf_mul(LookupTable_from(args.self), args.wnaf)
    /\ UNCHANGED args

NextWnaf == Call_wnaf_mul

SpecWnaf == InitWnaf /\ [][NextWnaf]_vars

\* the integer a digit sequence stands for, its first digit the least significant
RECURSIVE DigitsValue(_)
DigitsValue(d) ==
    IF d = <<>> THEN 0 ELSE Head(d) + 2 * DigitsValue(Tail(d))

\* C23: for a base A and a sequence d of digits that are 0 or odd values of
\* [-15, 15], wnaf_mul(table(A), d) is (sum of d[i] * 2^i) * A, d[0] being
\* the least significant digit; it is the identity for an empty or all-zero
\* sequence.
C23_WnafMulIsDigitSum ==
    op = "wnaf_mul" =>
        /\ ret = ((DigitsValue(args.wnaf) % CurveOrder) * args.self) % CurveOrder
        /\ (\A i \in DOMAIN args.wnaf : args.wnaf[i] = 0) => is_identity(ret)

\* Three digits, the first one negative and the last one positive, were
\* applied to a proper base: the result is (d0 + 2 d1 + 4 d2) A.
C23_Witness ==
    /\ op = "wnaf_mul"
    /\ Len(args.wnaf) = 3
    /\ args.wnaf[1] < 0
    /\ args.wnaf[3] > 1
    /\ ~is_identity(args.self)
    /\ ret = (((args.wnaf[1] + 2 * args.wnaf[2] + 4 * args.wnaf[3]) % CurveOrder)
                * args.self) % CurveOrder
    /\ ~is_identity(ret)

----------------------------------------------------------------------------
(* The correction loop of the Barrett reduction *)

\* C24: in barrett_reduction with the parameters of m and x = a * b for
\* 0 <= a, b < m, the loop that subtracts m while r >= m runs at most twice.
C24_AtMostTwoCorrections ==
    op = "barrett_reduction" =>
        /\ barrett_correction_iterations(
               barrett_estimate(args.x, args.modulus, args.k, args.u, args.v),
               args.modulus) <= 2
        /\ ret = barrett_correction(
               barrett_estimate(args.x, args.modulus, args.k, args.u, args.v),
               args.modulus)

\* A product was reduced with exactly two subtractions of the modulus.
C24_Witness ==
    /\ op = "barrett_reduction"
    /\ args.x = args.a * args.b
    /\ args.a < args.modulus
    /\ args.b < args.modulus
    /\ barrett_correction_iterations(
           barrett_estimate(args.x, args.modulus, args.k, args.u, args.v),
           args.modulus) = 2
    /\ ret = barrett_estimate(args.x, args.modulus, args.k, args.u, args.v)
                - 2 * args.modulus

----------------------------------------------------------------------------
(* Group operations of the Strauss multi-scalar multiplication *)

\* the greatest length of the wNAFs of the scalars
MaxWnafLength(field_elems) ==
    max_length([j \in 1 .. Len(field_elems) |-> to_wnaf(field_elems[j], WnafWidth)])

\* the operations of the call that has run
StraussOps ==
    multi_scalar_mul_var_time_ops(
        [j \in 1 .. Len(args.group_elems) |-> LookupTable_from(args.group_elems[j])],
        args.field_elems)

\* C25: multi_scalar_mul_var_time_with_precomputation_done goes through the
\* digit positions from the most significant to the least and doubles the
\* one accumulator exactly once per position: the number of doublings is the
\* greatest wNAF length among the scalars, whatever the number of bases, and
\* within a position the doubling comes before every addition or subtraction.
C25_OneDoublingPerPosition ==
    (op = "multi_scalar_mul_var_time_with_precomputation_done" /\ ret.ok) =>
        LET ops == StraussOps
            doublings == {n \in DOMAIN ops : ops[n].kind = "double"}
        IN  /\ Cardinality(doublings) = MaxWnafLength(args.field_elems)
            /\ \A p \in 0 .. (MaxWnafLength(args.field_elems) - 1) :
                    Cardinality({n \in doublings : ops[n].i = p}) = 1
            /\ \A n \in 1 .. (Len(ops) - 1) : ops[n].i >= ops[n + 1].i
            /\ \A n \in DOMAIN ops \ doublings :
                    \E n0 \in doublings : n0 < n /\ ops[n0].i = ops[n].i

\* Three bases with three scalars that are not 0 were multiplied: there are
\* as many doublings as the longest wNAF has digits, and more additions and
\* subtractions than bases.
C25_Witness ==
    /\ op = "multi_scalar_mul_var_time_with_precomputation_done"
    /\ ret.ok
    /\ Len(args.field_elems) = 3
    /\ \A j \in 1 .. 3 : args.field_elems[j] # 0
    /\ Cardinality({n \in DOMAIN StraussOps : StraussOps[n].kind = "double"})
            = MaxWnafLength(args.field_elems)
    /\ Cardinality({n \in DOMAIN StraussOps : StraussOps[n].kind # "double"}) > 3

----------------------------------------------------------------------------
(* Specification of the reuse of precomputed tables and multiples: they are
   built once for a vector of bases and then handed to any sequence of calls.
   args holds the bases, the tables and the multiples as they are now, and
   the scalars (and the table j, for wnaf_mul) of the last call. *)

InitReuse ==
    /\ op = "start"
    /\ args \in [group_elems : SeqsUpTo(ElemSample, MaxBases)]
    /\ ret = NoRet

\* scalars drawn for the calls that reuse the tables
ReuseScalarSample == {0, 17, CurveOrder - 1}

\* the scalars of the calls that reuse the tables, one per base
ReuseScalars == [1 .. Len(args.group_elems) -> ReuseScalarSample]

\* the caller builds one lookup table and one vector of 7 multiples per base
Precompute ==
    /\ op = "start"
    /\ op' = "precomputed"
    /\ args' = [group_elems |-> args.group_elems,
                lookup_tables |->
                    [j \in 1 .. Len(args.group_elems) |-> LookupTable_from(args.group_elems[j])],
                group_elem_multiples |->
                    [j \in 1 .. Len(args.group_elems) |->
                        get_multiples(args.group_elems[j], NumMultiples)],
                field_elems |-> <<>>, j |-> 0, calls |-> 0]
    /\ UNCHANGED ret

Reuse_var_time_with_precomputation_done ==
    /\ op # "start"
    /\ args.calls < MaxCalls
    /\ op' = "multi_scalar_mul_var_time_with_precomputation_done"
    /\ \E field_elems \in ReuseScalars :
        /\ ret' = multi_scalar_mul_var_time_with_precomputation_done(
                      args.lookup_tables, field_elems)
        /\ args' = [args EXCEPT
                        !.lookup_tables = precomputed_after_call(@, field_elems),
                        !.field_elems = field_elems, !.j = 0, !.calls = @ + 1]

Reuse_const_time_with_precomputation_done ==
    /\ op # "start"
    /\ args.calls < MaxCalls
    /\ op' = "multi_scalar_mul_const_time_with_precomputation_done"
    /\ \E field_elems \in ReuseScalars :
        /\ ret' = multi_scalar_mul_const_time_with_precomputation_done(
                      args.group_elem_multiples, field_elems)
        /\ args' = [args EXCEPT
                        !.group_elem_multiples = precomputed_after_call(@, field_elems),
                        !.field_elems = field_elems, !.j = 0, !.calls = @ + 1]

\* wnaf_mul(&table, &a.to_wnaf(5)) on the table of base j
Reuse_wnaf_mul ==
    /\ op # "start"
    /\ args.calls < MaxCalls
    /\ op' = "wnaf_mul"
    /\ \E j \in DOMAIN args.lookup_tables, a \in ReuseScalarSample :
        /\ ret' = wnaf_mul(args.lookup_tables[j], to_wnaf(a, WnafWidth))
        /\ args' = [args EXCEPT
                        !.lookup_tables =
                            precomputed_after_call(@, [i \in 1 .. j |-> IF i = j THEN a ELSE 0]),
                        !.field_elems = <<a>>, !.j = j, !.calls = @ + 1]

NextReuse ==
    \/ Precompute
    \/ Reuse_var_time_with_precomputation_done
    \/ Reuse_const_time_with_precomputation_done
    \/ Reuse_wnaf_mul

SpecReuse == InitReuse /\ [][NextReuse]_vars

----------------------------------------------------------------------------
(* Specification of the parallel sum of a group element vector.  The
   reduction holds a sequence of partial results, at first the elements; it
   may add the identity of the reduction anywhere, and it combines two
   partial results into one, in any order, until one is left.  While the
   reduction runs, ret holds the partial results and the number of
   identities added. *)

InitSum ==
    /\ op = "start"
    /\ args \in [self : SeqsUpTo(PairingSample, MaxLen)]
    /\ ret = NoRet

\* self.as_slice().par_iter().cloned().reduce(...)
Call_sum ==
    /\ op = "start"
    /\ op' = "sum.reduce"
    /\ ret' = [partial |-> args.self, identities |-> 0]
    /\ UNCHANGED args

\* a worker starts its fold from the identity of the reduction
Reduce_identity ==
    /\ op = "sum.reduce"
    /\ ret.identities < MaxIdentities
    /\ \E at \in 0 .. Len(ret.partial) :
        ret' = [partial |-> SubSeq(ret.partial, 1, at) \o <<sum_reduce_identity>>
                                \o SubSeq(ret.partial, at + 1, Len(ret.partial)),
                identities |-> ret.identities + 1]
    /\ UNCHANGED <<op, args>>

\* two partial results are combined into one
Reduce_combine ==
    /\ op = "sum.reduce"
    /\ \E i, j \in DOMAIN ret.partial :
        /\ i < j
        /\ ret' = [ret EXCEPT !.partial =
                    [n \in 1 .. (Len(ret.partial) - 1) |->
                        IF n = i THEN sum_reduce_op(ret.partial[i], ret.partial[j])
                        ELSE IF n < j THEN ret.partial[n]
                        ELSE ret.partial[n + 1]]]
    /\ UNCHANGED <<op, args>>

\* the reduction ends with the one result left, or with the identity of the
\* reduction when there was nothing to reduce
Return_sum ==
    /\ op = "sum.reduce"
    /\ Len(ret.partial) <= 1
    /\ op' = "sum"
    /\ ret' = IF ret.partial = <<>> THEN sum_reduce_identity ELSE ret.partial[1]
    /\ UNCHANGED args

NextSum ==
    \/ Call_sum
    \/ Reduce_identity
    \/ Reduce_combine
    \/ Return_sum

SpecSum == InitSum /\ [][NextSum]_vars

\* the sum of the elements taken from the first to the last
RECURSIVE SequentialSum(_, _)
SequentialSum(elems, n) ==
    IF n = 0 THEN identity ELSE (SequentialSum(elems, n - 1) + elems[n]) % CurveOrder

\* C27: sum() returns the same element however the parallel reduction
\* splits the vector and combines the partial sums, the sum of the elements
\* taken from left to right; it is the identity for an empty vector.
C27_SumIsOrderIndependent ==
    op = "sum" =>
        /\ ret = SequentialSum(args.self, Len(args.self))
        /\ args.self = <<>> => is_identity(ret)

\* Three elements, not all equal, were summed to an element that is not the
\* identity.
C27_Witness ==
    /\ op = "sum"
    /\ Len(args.self) = 3
    /\ args.self[1] # args.self[3]
    /\ ret = plus(plus(args.self[1], args.self[2]), args.self[3])
    /\ ~is_identity(ret)

----------------------------------------------------------------------------
(* Indices into the precomputed multiples *)

\* the padded radix-8 digits of the scalars of the call
PaddedDigits ==
    pad_collection([j \in 1 .. Len(args.field_elems) |->
                        to_power_of_2_base(args.field_elems[j], ConstTimeWindow)], 0)

\* C28: in multi_scalar_mul_const_time_without_precomputation every index
\* (digit - 1) at which a multiple is read lies in [0, 6], within the 7
\* multiples get_multiples(7) produced, for every scalar.
C28_IndexWithinMultiples ==
    (op = "multi_scalar_mul_const_time_without_precomputation" /\ ret.ok) =>
        LET digits == PaddedDigits
        IN  \A j \in DOMAIN digits :
                \A i \in DOMAIN digits[j] :
                    digits[j][i] # 0 =>
                        /\ const_time_index(digits[j][i]) \in 0 .. 6
                        /\ const_time_index(digits[j][i])
                                < Len(get_multiples(args.group_elems[j], NumMultiples))

\* A scalar with the digit 7 was multiplied: the multiple at index 6, the
\* last one, was read.
C28_Witness ==
    /\ op = "multi_scalar_mul_const_time_without_precomputation"
    /\ ret.ok
    /\ Len(args.field_elems) = 1
    /\ PaddedDigits[1][1] = 7
    /\ const_time_index(PaddedDigits[1][1]) = 6
    /\ ~is_identity(ret.val)

----------------------------------------------------------------------------
(* Empty inputs and padded digit sequences *)

\* the strategies, as the entry points that hold their loops
LoopingStrategies ==
    {"multi_scalar_mul_const_time_naive",
     "multi_scalar_mul_var_time_with_precomputation_done",
     "multi_scalar_mul_const_time_with_precomputation_done"}

\* the integer a sequence of radix-8 digits stands for, its first digit the
\* least significant
RECURSIVE RadixDigitsValue(_)
RadixDigitsValue(d) ==
    IF d = <<>> THEN 0 ELSE Head(d) + (2 ^ ConstTimeWindow) * RadixDigitsValue(Tail(d))

\* the padded wNAFs of the scalars of the call
PaddedWnafs ==
    pad_collection([j \in 1 .. Len(args.field_elems) |->
                        to_wnaf(args.field_elems[j], WnafWidth)], 0)

\* C29: with no group element and no scalar each strategy returns
\* Ok(identity); and padding the digit sequences with 0 up to a common
\* length leaves the scalar of every sequence as it was, so that a vector
\* holding the scalar 0 beside longer scalars still gives the sum of
\* S[i] * G[i].
C29_EmptyAndPaddedInputs ==
    op \in LoopingStrategies =>
        /\ (args.group_elems = <<>> /\ args.field_elems = <<>>) => ret = Ok(identity)
        /\ op = "multi_scalar_mul_var_time_with_precomputation_done" =>
                LET wnafs == PaddedWnafs
                    wnaf_length == MaxWnafLength(args.field_elems)
                IN  \A j \in DOMAIN args.field_elems :
                        /\ DigitsValue(wnafs[j]) = args.field_elems[j]
                        /\ Len(wnafs[j]) = wnaf_length
        /\ op = "multi_scalar_mul_const_time_with_precomputation_done" =>
                LET digits == PaddedDigits
                    digit_length == PaddedLength(args.field_elems)
                IN  \A j \in DOMAIN args.field_elems :
                        /\ RadixDigitsValue(digits[j]) = args.field_elems[j]
                        /\ Len(digits[j]) = digit_length
        /\ (/\ Len(args.group_elems) = Len(args.field_elems)
            /\ \E j \in DOMAIN args.field_elems : args.field_elems[j] = 0)
                => ret = Ok(InnerProduct(args.group_elems, args.field_elems))

\* The scalar 0, whose wNAF is padded, and a scalar above 8 multiplied two
\* proper bases: the sum is the second scalar times its base.
C29_Witness ==
    /\ op = "multi_scalar_mul_var_time_with_precomputation_done"
    /\ Len(args.group_elems) = 2
    /\ Len(args.field_elems) = 2
    /\ args.field_elems[1] = 0
    /\ args.field_elems[2] > 8
    /\ ~is_identity(args.group_elems[1])
    /\ ~is_identity(args.group_elems[2])
    /\ ret = Ok(scalar_mul_const_time(args.group_elems[2], args.field_elems[2]))

====
